---- MODULE Spec2Model ----
(***************************************************************************)
(* A model of dropspy's Session (dropspy.go): the calls Start, Stop,       *)
(* ReadUntil and Config of one Session, stepped transport operation by     *)
(* transport operation, against the netlink socket the Session owns and    *)
(* the kernel's NET_DM (drop monitor) family behind it.                    *)
(*                                                                         *)
(* Spec has the calls Start, Stop and ReadUntil in any order; ConfigSpec   *)
(* the calls Start, Stop and Config; ReadSpec the read loop on a started   *)
(* Session against datagrams of several messages.                          *)
(*                                                                         *)
(* The socket is a FIFO of datagrams: every reply of the kernel and every  *)
(* multicast alert of a joined group is queued on the one socket, and      *)
(* conn.Receive takes the oldest datagram whatever request it answers.     *)
(* The kernel side follows the release the source names ("5.6 mainline"):  *)
(* a request is handled when it is sent, an error is always answered, a    *)
(* success is answered only when the request carried the acknowledge flag. *)
(***************************************************************************)
EXTENDS Naturals, Sequences, FiniteSets, TLC

\* ------------------------------------------------------------------ bounds
\* datagrams the socket's receive buffer holds; further ones are dropped
MaxQueue == 2
\* multicast alerts the kernel sends in one behaviour
MaxAlerts == 1
\* transport failures, kernel refusals and malformed alerts in one behaviour
MaxFaults == 1
\* datagrams of several messages the kernel sends in one behaviour
MaxBatches == 2
\* messages in such a datagram
MaxBatchLen == 2
\* multicast groups a family of the registry exposes
MaxGroups == 2
\* the largest value of the program's -count flag
MaxCount == 2

\* ------------------------------------------------------- protocol schema
CMD_UNSPEC == 0
CMD_ALERT == 1
CMD_CONFIG == 2
CMD_START == 3
CMD_STOP == 4
CMD_PACKET_ALERT == 5
CMD_CONFIG_GET == 6
CMD_CONFIG_NEW == 7
GRP_ALERT == 1
ATTR_ALERT_MODE == 1
ATTR_PC == 2
ATTR_SYMBOL == 3
ATTR_IN_PORT == 4
ATTR_PROTO == 6
ATTR_PAYLOAD == 7
ATTR_TRUNC_LEN == 9
ATTR_ORIG_LEN == 10
ATTR_QUEUE_LEN == 11
NATTR_PORT_NETDEV_IFINDEX == 0
NATTR_PORT_NETDEV_NAME == 1

\* the command-line program before its first call on the Session: the values
\* of -count, -sw, -hw; its read deadline; the interrupt handler waiting
Program ==
    [at |-> "new", sig |-> "wait", dropCount |-> 0, maxDrops |-> 0,
     sw |-> TRUE, hw |-> TRUE, dl |-> "zero", retried |-> FALSE, hok |-> TRUE,
     started |-> FALSE]

\* ------------------------------------------------------------------ state
VARIABLES
    groups,   \* conn: the multicast groups the socket is a member of
    queue,    \* conn: the socket's receive queue, oldest datagram first
    rdl,      \* conn: the read deadline set on the socket: none, future, past
    ksw,      \* kernel: software drop monitoring is on
    khw,      \* kernel: hardware drop monitoring is on
    pc,       \* the position of the goroutine that drives the Session
    arg,      \* the arguments of the call in progress (or of the last call)
    perr,     \* Start's error while its rollback Stop runs, "" otherwise
    ms,       \* ReadUntil: the messages of the received datagram not yet looked at
    ret,      \* the result of the last call that returned
    ops,      \* the transport operations of the Start or Stop call, in order
    cur,      \* history of the call in progress (or of the last call)
    prev,     \* history of the call before it
    faults,   \* failures injected so far
    alerts,   \* multicast alerts sent so far
    main,     \* the command-line program: its position, flags and counters
    reg,      \* the generic netlink registry NewSession looks NET_DM up in
    sess,     \* the Session NewSession returned: its identifiers, or the error
    alert     \* a PacketAlert handed to a callback, and what its accessors returned

vars == <<groups, queue, rdl, ksw, khw, pc, arg, perr, ms, ret, ops, cur, prev,
          faults, alerts, main, reg, sess, alert>>

\* what the calls on a Session leave alone
outer == <<main, reg, sess, alert>>

Deadlines == {"zero", "past", "future"}

Joined == GRP_ALERT \in groups
Alerting == ksw \/ khw
Idle == ~Joined /\ ~Alerting
Monitoring == Joined /\ Alerting

\* ------------------------------------------------------------- datagrams
\* An acknowledgment is an NLMSG_ERROR message with code 0; conn.Receive hands
\* it on as a message, whose first byte reads as command 0. An error reply is
\* an NLMSG_ERROR message with a code, which conn.Receive returns as an error.
AckMsg == [k |-> "ack", c |-> CMD_UNSPEC, good |-> TRUE]
ErrMsg == [k |-> "err", c |-> CMD_UNSPEC, good |-> TRUE]
McMsg(c, good) == [k |-> "mc", c |-> c, good |-> good]
\* the kernel's reply to CMD_CONFIG_GET
ConfMsg == [k |-> "conf", c |-> CMD_CONFIG_NEW, good |-> TRUE]

\* a datagram that carries several messages, which conn.Receive returns as
\* one slice
Batch(b) == [k |-> "batch", c |-> CMD_UNSPEC, good |-> TRUE, ms |-> b]

\* the messages conn.Receive returns for a datagram
Messages(d) == IF d.k = "batch" THEN d.ms ELSE <<d>>

IsAlert(m) == m.c = CMD_PACKET_ALERT

\* the attribute stream of an alert: a record per attribute, ok when its
\* length field fits the bytes that are left; a malformed alert has a
\* truncated record in its middle
Raw(m) ==
    << [t |-> ATTR_PC, ok |-> TRUE],
       [t |-> ATTR_SYMBOL, ok |-> m.good],
       [t |-> ATTR_PROTO, ok |-> TRUE] >>

\* the loop of decodeAlert over dec.Next(): the attributes stored in ret so
\* far, until the stream ends or a record fails to parse (dec.Err())
RECURSIVE decodeNext(_, _)
decodeNext(raw, acc) ==
    IF raw = <<>> THEN [err |-> FALSE, nil |-> FALSE, attrs |-> acc]
    ELSE IF ~Head(raw).ok THEN [err |-> TRUE, nil |-> FALSE, attrs |-> acc]
    ELSE decodeNext(Tail(raw), acc \cup {Head(raw).t})

\* mutant: the map filled so far is returned along with the error
decodeAlertPartial(raw) == decodeNext(raw, {})

\* decodeAlert: the attribute map, or nil and the error
decodeAlert(raw) ==
    LET d == decodeNext(raw, {}) IN
    IF d.err THEN [err |-> TRUE, nil |-> TRUE, attrs |-> {}] ELSE d

\* PacketAlertFromRaw: the PacketAlert around the map, or the zero value
PacketAlertFromRaw(raw) ==
    LET d == decodeAlert(raw) IN
    IF d.err THEN [err |-> TRUE, nil |-> TRUE, attrs |-> {}] ELSE d

NoAlert == [err |-> FALSE, nil |-> TRUE, attrs |-> {}]

\* the attribute stream Config takes from ms[0].Data: the configuration of a
\* reply to CMD_CONFIG_GET; of an acknowledgment, the header of the request
\* it acknowledges, which is no attribute; of any other message, its own
RawConfig(m) ==
    IF m.k = "conf"
    THEN << [t |-> ATTR_ALERT_MODE, ok |-> TRUE],
            [t |-> ATTR_TRUNC_LEN, ok |-> TRUE],
            [t |-> ATTR_QUEUE_LEN, ok |-> TRUE] >>
    ELSE IF m.k = "ack" THEN << [t |-> CMD_UNSPEC, ok |-> FALSE] >>
    ELSE Raw(m)

\* decodeConfig: the three configuration attributes of the stream, or nil
\* and the error
decodeConfig(raw) ==
    LET d == decodeNext(raw, {}) IN
    IF d.err THEN [err |-> TRUE, nil |-> TRUE, attrs |-> {}]
    ELSE [d EXCEPT !.attrs = d.attrs \cap {ATTR_ALERT_MODE, ATTR_TRUNC_LEN, ATTR_QUEUE_LEN}]

\* a full receive buffer drops the datagram
Deliver(q, m) == IF Len(q) < MaxQueue THEN Append(q, m) ELSE q

\* ---------------------------------------------------------------- kernel
\* With neither flag the kernel starts/stops software monitoring.
SwSel(sw, hw) == sw \/ (~sw /\ ~hw)

\* The NET_DM handler: the kernel's state after the request and whether the
\* request is answered with an error. refuse: the kernel fails the request
\* for a reason of its own (privileges, memory, hardware).
KernelRcv(cmd, sw, hw, refuse) ==
    LET same == [sw |-> ksw, hw |-> khw, err |-> FALSE] IN
    IF refuse THEN [same EXCEPT !.err = TRUE]
    ELSE IF cmd = CMD_CONFIG
         THEN [same EXCEPT !.err = Alerting]
    ELSE IF cmd = CMD_START
         THEN IF (SwSel(sw, hw) /\ ksw) \/ (hw /\ khw)
              THEN [same EXCEPT !.err = TRUE]
              ELSE [sw |-> ksw \/ SwSel(sw, hw), hw |-> khw \/ hw, err |-> FALSE]
    ELSE IF cmd = CMD_STOP
         THEN [sw |-> ksw /\ ~SwSel(sw, hw), hw |-> khw /\ ~hw, err |-> FALSE]
    ELSE IF cmd = CMD_CONFIG_GET
         THEN same
    ELSE [same EXCEPT !.err = TRUE]

\* the reply the kernel queues on the socket: the error; or the answer of a
\* CMD_CONFIG_GET, and the acknowledgment when the request asked for one
KernelReply(q, cmd, err, ack) ==
    LET answered == IF cmd = CMD_CONFIG_GET THEN Deliver(q, ConfMsg) ELSE q IN
    IF err THEN Deliver(q, ErrMsg)
    ELSE IF ack THEN Deliver(answered, AckMsg)
    ELSE answered

\* ------------------------------------------------------------- transport
\* What may go wrong at one transport operation.
FaultFree == IF faults < MaxFaults THEN {TRUE, FALSE} ELSE {TRUE}
FaultChoices == IF faults < MaxFaults THEN {FALSE, TRUE} ELSE {FALSE}
RecvChoices == IF rdl = "past" THEN {FALSE} ELSE FaultChoices
SendChoices == IF faults < MaxFaults THEN {"ok", "fail", "refuse"} ELSE {"ok"}

\* the attributes of setPacketMode's CMD_CONFIG request
ALERT_MODE_PACKET == 1
TruncLen == 100
QueueLen == 4096
ConfigAttrs == <<ALERT_MODE_PACKET, TruncLen, QueueLen>>

\* one entry of ops: the operation, the request's command and acknowledge
\* flag, its attributes (cfg; the sw and hw flags), and whether it succeeded
Op(op, cmd, ack, sw, hw, ok) ==
    [op |-> op, cmd |-> cmd, ack |-> ack, sw |-> sw, hw |-> hw, ok |-> ok,
     cfg |-> IF op = "send" /\ cmd = CMD_CONFIG THEN ConfigAttrs ELSE <<>>]

\* conn.Send of one request. how = "fail": the send fails and the kernel sees
\* nothing; otherwise the kernel handles the request.
Send(cmd, sw, hw, ack, how) ==
    LET k == KernelRcv(cmd, sw, hw, how = "refuse") IN
    /\ faults' = IF how = "ok" THEN faults ELSE faults + 1
    /\ IF how = "fail"
       THEN UNCHANGED <<ksw, khw, queue>>
       ELSE /\ ksw' = k.sw
            /\ khw' = k.hw
            /\ queue' = KernelReply(queue, cmd, k.err, ack)

\* Session.req, on the goroutine whose operations ops records
req(cmd, sw, hw, ack, how) ==
    /\ Send(cmd, sw, hw, ack, how)
    /\ ops' = Append(ops, Op("send", cmd, ack, sw, hw, how # "fail"))

\* mutant: a queued datagram is read before the deadline is looked at
ReceiveDeadlineLast(fail) ==
    IF fail THEN [res |-> "error", m |-> AckMsg, q |-> queue]
    ELSE IF queue = <<>> THEN [res |-> "timeout", m |-> AckMsg, q |-> queue]
    ELSE IF Head(queue).k = "err"
         THEN [res |-> "error", m |-> Head(queue), q |-> Tail(queue)]
    ELSE [res |-> "ok", m |-> Head(queue), q |-> Tail(queue)]

\* conn.Receive: the outcome of one receive. An elapsed read deadline fails it
\* with a timeout before anything is read; a transport failure reads nothing;
\* otherwise the oldest datagram is taken, and an error reply is an error.
Receive(fail) ==
    IF rdl = "past" THEN [res |-> "timeout", m |-> AckMsg, q |-> queue]
    ELSE IF fail THEN [res |-> "error", m |-> AckMsg, q |-> queue]
    ELSE IF Head(queue).k = "err"
         THEN [res |-> "error", m |-> Head(queue), q |-> Tail(queue)]
    ELSE [res |-> "ok", m |-> Head(queue), q |-> Tail(queue)]

\* a receive returns when the deadline has elapsed, fails, or has a datagram
CanReceive(fail) == rdl = "past" \/ fail \/ queue # <<>>

\* ------------------------------------------------------------ call frame
\* the sources a Stop(sw, hw) request names are off in the kernel
Stopped(sw, hw) == (SwSel(sw, hw) => ~ksw) /\ (hw => ~khw)

Snapshot == [j |-> Joined, sw |-> ksw, hw |-> khw]

Begin(op, sw, hw, dl) ==
    /\ pc = "ready"
    /\ arg' = [sw |-> sw, hw |-> hw, dl |-> dl]
    /\ prev' = [op |-> cur.op, ret |-> ret, clean |-> cur.clean,
                idle |-> ~cur.pre.j /\ ~cur.pre.sw /\ ~cur.pre.hw,
                off |-> ~Joined /\ Stopped(arg.sw, arg.hw)]
    /\ cur' = [op |-> op, clean |-> TRUE, pre |-> Snapshot, rb |-> "none",
               cbs |-> 0, tmo |-> FALSE, stop |-> FALSE, got |-> <<>>, fed |-> <<>>,
               dec |-> NoAlert, late |-> (dl = "past"), ahead |-> 0]
    /\ ops' = <<>>
    /\ perr' = ""
    /\ ms' = <<>>

Return(r) ==
    /\ pc' = "ready"
    /\ ret' = r

Dirty(bad) == [cur EXCEPT !.clean = cur.clean /\ ~bad]

\* ----------------------------------------------------------------- Start
Start ==
    \E sw \in BOOLEAN, hw \in BOOLEAN :
        /\ Begin("Start", sw, hw, "zero")
        /\ pc' = "cfg_req"
        /\ UNCHANGED <<groups, queue, rdl, ksw, khw, ret, faults, alerts>>
        /\ UNCHANGED outer

\* the history of a request that awaits its reply; cur.ahead: the datagrams
\* queued on the socket ahead of the kernel's reply
Awaiting(how) ==
    [Dirty(how # "ok") EXCEPT !.ahead = IF how = "fail" THEN 0 ELSE Len(queue)]

\* the history once the reply was awaited
Awaited(fail) == [Dirty(fail) EXCEPT !.ahead = 0]

\* setPacketMode: the acknowledged CMD_CONFIG request
setPacketModeReq ==
    /\ pc = "cfg_req"
    /\ \E how \in SendChoices :
        /\ req(CMD_CONFIG, FALSE, FALSE, TRUE, how)
        /\ cur' = Awaiting(how)
        /\ IF how = "fail"
           THEN Return("packet mode: req")
           ELSE pc' = "cfg_ack" /\ UNCHANGED ret
    /\ UNCHANGED <<groups, rdl, arg, perr, ms, prev, alerts>>
    /\ UNCHANGED outer

\* mutant: the error of setPacketMode is not looked at
PacketModeUnchecked(res) == "start_req"

\* Start after setPacketMode returned: on with CMD_START, or return the error
PacketModeNext(res) == IF res = "ok" THEN "start_req" ELSE "ready"

\* setPacketMode: the receive of the acknowledgment
setPacketModeAck ==
    /\ pc = "cfg_ack"
    /\ \E fail \in RecvChoices :
        /\ CanReceive(fail)
        /\ LET r == Receive(fail) IN
            /\ queue' = r.q
            /\ faults' = IF fail THEN faults + 1 ELSE faults
            /\ cur' = Awaited(fail)
            /\ ops' = Append(ops, Op("recv", CMD_CONFIG, FALSE, FALSE, FALSE, r.res = "ok"))
            /\ IF PacketModeNext(r.res) = "ready"
               THEN Return("packet mode: req ack")
               ELSE pc' = PacketModeNext(r.res) /\ UNCHANGED ret
    /\ UNCHANGED <<groups, rdl, ksw, khw, arg, perr, ms, prev, alerts>>
    /\ UNCHANGED outer

\* the acknowledged CMD_START request
StartReq ==
    /\ pc = "start_req"
    /\ \E how \in SendChoices :
        /\ req(CMD_START, arg.sw, arg.hw, TRUE, how)
        /\ cur' = Awaiting(how)
        /\ IF how = "fail"
           THEN Return("req")
           ELSE pc' = "start_ack" /\ UNCHANGED ret
    /\ UNCHANGED <<groups, rdl, arg, perr, ms, prev, alerts>>
    /\ UNCHANGED outer

\* the receive of CMD_START's acknowledgment; a failure runs Stop(sw, hw)
StartAck ==
    /\ pc = "start_ack"
    /\ \E fail \in RecvChoices :
        /\ CanReceive(fail)
        /\ LET r == Receive(fail) IN
            /\ queue' = r.q
            /\ faults' = IF fail THEN faults + 1 ELSE faults
            /\ cur' = Awaited(fail)
            /\ ops' = Append(ops, Op("recv", CMD_START, FALSE, FALSE, FALSE, r.res = "ok"))
            /\ IF r.res = "ok"
               THEN pc' = "join" /\ UNCHANGED perr
               ELSE pc' = "leave" /\ perr' = "req ack"
    /\ UNCHANGED <<groups, rdl, ksw, khw, arg, ms, ret, prev, alerts>>
    /\ UNCHANGED outer

\* conn.JoinGroup(GRP_ALERT); a failure runs Stop(sw, hw)
StartJoin ==
    /\ pc = "join"
    /\ \E fail \in FaultChoices :
        /\ faults' = IF fail THEN faults + 1 ELSE faults
        /\ cur' = Dirty(fail)
        /\ ops' = Append(ops, Op("join", GRP_ALERT, FALSE, FALSE, FALSE, ~fail))
        /\ IF fail
           THEN pc' = "leave" /\ perr' = "join" /\ UNCHANGED <<groups, ret>>
           ELSE groups' = groups \cup {GRP_ALERT} /\ Return("nil") /\ UNCHANGED perr
    /\ UNCHANGED <<queue, rdl, ksw, khw, arg, ms, prev, alerts>>
    /\ UNCHANGED outer

\* ------------------------------------------------------------------ Stop
Stop ==
    \E sw \in BOOLEAN, hw \in BOOLEAN :
        /\ Begin("Stop", sw, hw, "zero")
        /\ pc' = "leave"
        /\ UNCHANGED <<groups, queue, rdl, ksw, khw, ret, faults, alerts>>
        /\ UNCHANGED outer

\* conn.LeaveGroup(GRP_ALERT), its error discarded
StopLeave ==
    /\ pc = "leave"
    /\ \E fail \in FaultChoices :
        /\ faults' = IF fail THEN faults + 1 ELSE faults
        /\ cur' = Dirty(fail)
        /\ ops' = Append(ops, Op("leave", GRP_ALERT, FALSE, FALSE, FALSE, ~fail))
        /\ groups' = IF fail THEN groups ELSE groups \ {GRP_ALERT}
    /\ pc' = "stop_req"
    /\ UNCHANGED <<queue, rdl, ksw, khw, arg, perr, ms, ret, prev, alerts>>
    /\ UNCHANGED outer

\* mutant: CMD_STOP is sent with the acknowledge flag
StopAckSet == TRUE

\* the acknowledge flag of Stop's CMD_STOP request
StopAck == FALSE

\* mutant: the check of the request's error is inverted
StopResultInverted(sent) == IF sent THEN "req" ELSE "nil"

\* what Stop returns after its request was sent (sent) or failed to be sent
StopResult(sent) == IF sent THEN "nil" ELSE "req"

\* mutant: the error of the rollback Stop replaces Start's own
StartResultMasked(original, stopped) == IF stopped = "nil" THEN original ELSE stopped

\* what Start returns after its rollback Stop returned stopped
StartResult(original, stopped) == original

\* mutant: CMD_STOP is sent with the acknowledge flag and its acknowledgment
\* is awaited, as Stop's doc comment has it
StopReqAcked ==
    /\ pc = "stop_req"
    /\ queue # <<>>
    /\ \E how \in SendChoices :
        /\ faults' = IF how = "ok" THEN faults ELSE faults + 1
        /\ ops' = ops \o << Op("send", CMD_STOP, TRUE, arg.sw, arg.hw, how # "fail"),
                            Op("recv", CMD_STOP, FALSE, FALSE, FALSE, TRUE) >>
        /\ cur' = Dirty(how # "ok")
        /\ Return(IF perr = "" THEN StopResult(how # "fail") ELSE perr)
    /\ queue' = Tail(queue)
    /\ perr' = ""
    /\ UNCHANGED <<groups, rdl, ksw, khw, arg, ms, prev, alerts>>
    /\ UNCHANGED outer

\* the CMD_STOP request; Stop returns without a receive. Inside Start, Start
\* then returns its own error.
StopReq ==
    /\ pc = "stop_req"
    /\ \E how \in SendChoices :
        /\ req(CMD_STOP, arg.sw, arg.hw, StopAck, how)
        /\ LET stopped == StopResult(how # "fail") IN
            IF perr = ""
            THEN /\ Return(stopped)
                 /\ cur' = Dirty(how # "ok")
            ELSE /\ Return(StartResult(perr, stopped))
                 /\ cur' = [Dirty(how # "ok") EXCEPT !.rb = stopped]
    /\ perr' = ""
    /\ UNCHANGED <<groups, rdl, arg, ms, prev, alerts>>
    /\ UNCHANGED outer

\* ---------------------------------------------------------------- Config
Config ==
    /\ Begin("Config", FALSE, FALSE, "zero")
    /\ pc' = "get_req"
    /\ UNCHANGED <<groups, queue, rdl, ksw, khw, ret, faults, alerts>>
    /\ UNCHANGED outer

\* the CMD_CONFIG_GET request, without the acknowledge flag; cur.ahead: the
\* datagrams queued on the socket ahead of the kernel's reply
ConfigReq ==
    /\ pc = "get_req"
    /\ \E how \in SendChoices :
        /\ req(CMD_CONFIG_GET, FALSE, FALSE, FALSE, how)
        /\ cur' = [Dirty(how # "ok") EXCEPT !.ahead = Len(queue)]
        /\ IF how = "fail"
           THEN Return("config")
           ELSE pc' = "get_recv" /\ UNCHANGED ret
    /\ UNCHANGED <<groups, rdl, arg, perr, ms, prev, alerts>>
    /\ UNCHANGED outer

\* the receive of one datagram, and decodeConfig of its first message;
\* cur.got: the message decoded
ConfigRecv ==
    /\ pc = "get_recv"
    /\ \E fail \in RecvChoices :
        /\ CanReceive(fail)
        /\ LET r == Receive(fail)
               m == Head(Messages(r.m))
               conf == decodeConfig(RawConfig(m)) IN
            /\ queue' = r.q
            /\ faults' = IF fail THEN faults + 1 ELSE faults
            /\ ops' = Append(ops, Op("recv", CMD_CONFIG_GET, FALSE, FALSE, FALSE, r.res = "ok"))
            /\ IF r.res # "ok"
               THEN cur' = Dirty(fail) /\ Return("config")
               ELSE /\ cur' = [cur EXCEPT !.got = <<m>>, !.dec = conf]
                    /\ Return(IF conf.err THEN "config" ELSE "nil")
    /\ UNCHANGED <<groups, rdl, ksw, khw, arg, perr, ms, prev, alerts>>
    /\ UNCHANGED outer

\* ------------------------------------------------------------- ReadUntil
ReadUntil ==
    \E dl \in Deadlines :
        /\ Begin("ReadUntil", FALSE, FALSE, dl)
        /\ pc' = "read_top"
        /\ UNCHANGED <<groups, queue, rdl, ksw, khw, ret, faults, alerts>>
        /\ UNCHANGED outer

\* the head of the loop: conn.SetReadDeadline(deadline) unless it is zero
ReadDeadline ==
    /\ pc = "read_top"
    /\ rdl' = IF arg.dl # "zero" THEN arg.dl ELSE rdl
    /\ pc' = "read_recv"
    /\ UNCHANGED <<groups, queue, ksw, khw, arg, perr, ms, ret, ops, cur, prev,
                   faults, alerts>>
    /\ UNCHANGED outer

\* mutant: a timeout is returned like any other receive error
TimeoutAsError == "recv"

\* mutant: a failed receive ends the loop without an error
RecvErrorSwallowed == "nil"

\* what ReadUntil returns when its receive failed otherwise
RecvErrorResult == "recv"

\* what ReadUntil returns when its receive timed out
TimeoutResult == "nil"

\* conn.Receive in the loop
ReadReceive ==
    /\ pc = "read_recv"
    /\ \E fail \in RecvChoices :
        /\ CanReceive(fail)
        /\ LET r == Receive(fail) IN
            /\ queue' = r.q
            /\ faults' = IF fail THEN faults + 1 ELSE faults
            /\ IF r.res = "ok"
               THEN /\ ms' = Messages(r.m)
                    /\ pc' = "read_msgs"
                    /\ cur' = [Dirty(fail) EXCEPT
                                  !.got = cur.got \o SelectSeq(Messages(r.m), IsAlert)]
                    /\ UNCHANGED ret
               ELSE /\ ms' = <<>>
                    /\ cur' = [Dirty(fail) EXCEPT !.tmo = (r.res = "timeout")]
                    /\ Return(IF r.res = "timeout" THEN TimeoutResult ELSE RecvErrorResult)
    /\ UNCHANGED <<groups, rdl, ksw, khw, arg, perr, ops, prev, alerts>>
    /\ UNCHANGED outer

\* the round of the loop at hand calls f
Calls ==
    /\ pc = "read_msgs" /\ ms # <<>>
    /\ IsAlert(Head(ms))
    /\ ~PacketAlertFromRaw(Raw(Head(ms))).err

\* mutant: a message of any command is parsed and handed to f
IsPacketAlertAny(m) == TRUE

\* the test of the message's command
IsPacketAlert(m) == m.c = CMD_PACKET_ALERT

\* mutant: the loop goes on after f returned false
AfterCallbackAlways(more) == TRUE

\* whether the loop goes on after f returned more
AfterCallback(more) == more

\* one round of the loop over the received messages, f returning more
ReadLoop(more) ==
    /\ pc = "read_msgs"
    /\ IF ms = <<>>
       THEN pc' = "read_top" /\ UNCHANGED <<ms, ret, cur>>
       ELSE LET m == Head(ms) IN
            IF ~IsPacketAlert(m)
            THEN ms' = Tail(ms) /\ UNCHANGED <<pc, ret, cur>>
            ELSE LET pa == PacketAlertFromRaw(Raw(m)) IN
                 IF pa.err
                 THEN /\ ms' = <<>>
                      /\ Return("parse alert packet")
                      /\ cur' = [cur EXCEPT !.dec = decodeAlert(Raw(m))]
                 ELSE /\ cur' = [cur EXCEPT !.cbs = cur.cbs + 1,
                                            !.fed = Append(cur.fed, m),
                                            !.stop = ~more,
                                            !.dec = decodeAlert(Raw(m))]
                      /\ IF AfterCallback(more)
                         THEN ms' = Tail(ms) /\ UNCHANGED <<pc, ret>>
                         ELSE ms' = <<>> /\ Return("nil")
    /\ UNCHANGED <<groups, queue, rdl, ksw, khw, arg, perr, ops, prev, faults, alerts>>

\* one round of the loop, f being any function
ReadMessage ==
    /\ \E more \in (IF Calls THEN BOOLEAN ELSE {TRUE}) : ReadLoop(more)
    /\ UNCHANGED outer

\* ----------------------------------------------------------- environment
\* The kernel multicasts an alert to the members of the alert group while it
\* monitors. A malformed alert counts as a failure.
KernelAlertUpTo(n) ==
    /\ Joined /\ Alerting
    /\ alerts < n
    /\ \E good \in FaultFree :
        /\ queue' = Deliver(queue, McMsg(CMD_PACKET_ALERT, good))
        /\ faults' = IF good THEN faults ELSE faults + 1
    /\ alerts' = alerts + 1
    /\ UNCHANGED <<groups, rdl, ksw, khw, pc, arg, perr, ms, ret, ops, cur, prev>>
    /\ UNCHANGED outer

KernelAlert == KernelAlertUpTo(MaxAlerts)

\* one message of a multicast datagram: a packet alert (pkt), a packet alert
\* with a truncated attribute (bad), or a message of another command
BatchMsg(kind, id) ==
    [k |-> "mc", c |-> IF kind = "other" THEN CMD_ALERT ELSE CMD_PACKET_ALERT,
     good |-> kind # "bad", id |-> id]

\* The kernel multicasts a datagram of one or more messages. A malformed
\* alert counts as a failure.
KernelBatch ==
    /\ Joined /\ Alerting
    /\ alerts < MaxBatches
    /\ \E n \in 1..MaxBatchLen : \E kinds \in [1..n -> {"pkt", "bad", "other"}] :
        LET bad == Cardinality({i \in 1..n : kinds[i] = "bad"}) IN
        /\ faults + bad <= MaxFaults
        /\ faults' = faults + bad
        /\ queue' = Deliver(queue, Batch([i \in 1..n |-> BatchMsg(kinds[i], <<alerts + 1, i>>)]))
    /\ alerts' = alerts + 1
    /\ UNCHANGED <<groups, rdl, ksw, khw, pc, arg, perr, ms, ret, ops, cur, prev>>
    /\ UNCHANGED outer

\* the pending read deadline elapses
Elapse ==
    /\ rdl = "future"
    /\ rdl' = "past"
    /\ arg' = IF pc \in {"read_top", "read_recv", "read_msgs"} /\ arg.dl = "future"
              THEN [arg EXCEPT !.dl = "past"]
              ELSE arg
    /\ UNCHANGED <<groups, queue, ksw, khw, pc, perr, ms, ret, ops, cur, prev,
                   faults, alerts>>
    /\ UNCHANGED outer

\* ----------------------------------------------------------- PacketAlert
\* pa.attrs is a map from attribute types to the values decodeAlert stored:
\* a function whose domain holds the attributes that were on the wire. The
\* value of ATTR_IN_PORT is a map of the nested attributes.
NoAttrs == [a \in {} |-> 0]

\* the outcome of an accessor: the value returned, or a panic
Returns(v) == [panic |-> FALSE, v |-> v]
Panics == [panic |-> TRUE, v |-> 0]

\* the length of the link layer header L3Packet skips
EthHeader == 14

Packet(pa) ==
    IF ATTR_PAYLOAD \notin DOMAIN pa THEN Returns(<<>>)
    ELSE Returns(pa[ATTR_PAYLOAD])

L3Packet(pa) ==
    LET packet == Packet(pa).v IN
    IF Len(packet) <= EthHeader THEN Returns(<<>>)
    ELSE Returns(SubSeq(packet, EthHeader + 1, Len(packet)))

Symbol(pa) ==
    IF ATTR_SYMBOL \notin DOMAIN pa THEN Returns("")
    ELSE Returns(pa[ATTR_SYMBOL])

PC(pa) ==
    IF ATTR_PC \notin DOMAIN pa THEN Returns(0)
    ELSE Returns(pa[ATTR_PC])

Proto(pa) ==
    IF ATTR_PROTO \notin DOMAIN pa THEN Returns(0)
    ELSE Returns(pa[ATTR_PROTO])

Length(pa) ==
    IF ATTR_ORIG_LEN \notin DOMAIN pa THEN Returns(0)
    ELSE Returns(pa[ATTR_ORIG_LEN])

\* mutant: the nested index is asserted to be a uint32 without the ok test
LinkUnchecked(pa) ==
    IF ATTR_IN_PORT \notin DOMAIN pa THEN Returns(0)
    ELSE LET a == pa[ATTR_IN_PORT] IN
         IF NATTR_PORT_NETDEV_IFINDEX \notin DOMAIN a THEN Panics
         ELSE Returns(a[NATTR_PORT_NETDEV_IFINDEX])

Link(pa) ==
    IF ATTR_IN_PORT \notin DOMAIN pa THEN Returns(0)
    ELSE LET a == pa[ATTR_IN_PORT] IN
         IF NATTR_PORT_NETDEV_IFINDEX \notin DOMAIN a THEN Returns(0)
         ELSE Returns(a[NATTR_PORT_NETDEV_IFINDEX])

\* a PacketAlert no accessor was called on yet
Unread(pa) == [attrs |-> pa, read |-> FALSE, out |-> <<>>]

\* the accessors' results, in the order Packet, L3Packet, Symbol, PC, Proto,
\* Length, Link
Accessed(pa) ==
    [attrs |-> pa, read |-> TRUE,
     out |-> <<Packet(pa), L3Packet(pa), Symbol(pa), PC(pa), Proto(pa), Length(pa),
               Link(pa)>>]

\* ------------------------------------------------------------ NewSession
\* The registry: whether genetlink.Dial succeeds; what GetFamily("NET_DM")
\* finds (the family, no such family, or a failure of the lookup itself); the
\* family's identifier and the identifiers of its multicast groups.
RegistryOf(dial, lookup, id, grps) ==
    [dial |-> dial, lookup |-> lookup, id |-> id, groups |-> grps]

\* the registry of a kernel with the drop monitor
FamilyId == 27
Registry == RegistryOf(TRUE, "found", FamilyId, <<GRP_ALERT>>)

NoSession(err) == [ok |-> FALSE, err |-> err, fam |-> 0, group |-> 0]

\* mutant: the first group is taken whatever their number
dropMonitorLookupFirst(r) ==
    IF r.lookup # "found" THEN NoSession("session: lookup")
    ELSE IF r.groups = <<>> THEN NoSession("session: lookup: martian")
    ELSE [ok |-> TRUE, err |-> "nil", fam |-> r.id, group |-> r.groups[1]]

\* dropMonitorLookup: the identifiers of the family and of its one group
dropMonitorLookup(r) ==
    IF r.lookup # "found" THEN NoSession("session: lookup")
    ELSE IF Len(r.groups) # 1 THEN NoSession("session: lookup: martian")
    ELSE [ok |-> TRUE, err |-> "nil", fam |-> r.id, group |-> r.groups[1]]

\* NewSession: the Session, or the error and no Session
NewSession(r) ==
    IF ~r.dial THEN NoSession("session") ELSE dropMonitorLookup(r)

\* ------------------------------------------------------------------ spec
\* the Session NewSession returns, before any call on it
Constructed ==
    /\ groups = {}
    /\ queue = <<>>
    /\ rdl = "none"
    /\ ksw = FALSE
    /\ khw = FALSE
    /\ pc = "ready"
    /\ arg = [sw |-> FALSE, hw |-> FALSE, dl |-> "zero"]
    /\ perr = ""
    /\ ms = <<>>
    /\ ret = "nil"
    /\ ops = <<>>
    /\ cur = [op |-> "none", clean |-> TRUE, pre |-> [j |-> FALSE, sw |-> FALSE, hw |-> FALSE],
              rb |-> "none", cbs |-> 0, tmo |-> FALSE, stop |-> FALSE, got |-> <<>>, fed |-> <<>>,
              dec |-> NoAlert, late |-> FALSE, ahead |-> 0]
    /\ prev = [op |-> "none", ret |-> "nil", clean |-> TRUE, idle |-> TRUE, off |-> TRUE]
    /\ faults = 0
    /\ alerts = 0

Init ==
    /\ Constructed
    /\ main = Program
    /\ reg = Registry
    /\ sess = NewSession(Registry)
    /\ alert = Unread(NoAttrs)

Next ==
    \/ Start
    \/ setPacketModeReq
    \/ setPacketModeAck
    \/ StartReq
    \/ StartAck
    \/ StartJoin
    \/ Stop
    \/ StopLeave
    \/ StopReq
    \/ ReadUntil
    \/ ReadDeadline
    \/ ReadReceive
    \/ ReadMessage
    \/ KernelAlert
    \/ Elapse

Spec == Init /\ [][Next]_vars

\* the transport operations of a Start(sw, hw) whose every step succeeds
StartOps(sw, hw) ==
    << Op("send", CMD_CONFIG, TRUE, FALSE, FALSE, TRUE),
       Op("recv", CMD_CONFIG, FALSE, FALSE, FALSE, TRUE),
       Op("send", CMD_START, TRUE, sw, hw, TRUE),
       Op("recv", CMD_START, FALSE, FALSE, FALSE, TRUE),
       Op("join", GRP_ALERT, FALSE, FALSE, FALSE, TRUE) >>

\* ----------------------------------------------------------- the program
\* cmd/dropspy's main on the Session NewSession returned: Stop(true, true),
\* Start(sw, hw), then ReadUntil in a loop until it returns no error, then the
\* deferred Stop(true, true); and the goroutine that, on an interrupt, calls
\* Stop(true, true) and exits the process. The steps of the calls are those
\* of the Session; the callback and the calls are the program's.
Running == main.at # "exited"

\* os.Exit, or the return of main: no goroutine takes another step
Exit ==
    /\ pc' = "exited"
    /\ main' = [main EXCEPT !.at = "exited"]

\* session.Stop(true, true) before the start
MainStop ==
    /\ main.at = "new"
    /\ Begin("Stop", TRUE, TRUE, "zero")
    /\ pc' = "leave"
    /\ main' = [main EXCEPT !.at = "stop"]
    /\ UNCHANGED <<groups, queue, rdl, ksw, khw, ret, faults, alerts, reg, sess, alert>>

\* session.Start(sw, hw)
MainStart ==
    /\ main.at = "stop"
    /\ Begin("Start", main.sw, main.hw, "zero")
    /\ pc' = "cfg_req"
    /\ main' = [main EXCEPT !.at = "start"]
    /\ UNCHANGED <<groups, queue, rdl, ksw, khw, ret, faults, alerts, reg, sess, alert>>

\* Start returned an error: os.Exit(1)
MainStartFailed ==
    /\ main.at = "start" /\ pc = "ready" /\ ret # "nil"
    /\ Exit
    /\ UNCHANGED <<groups, queue, rdl, ksw, khw, arg, perr, ms, ret, ops, cur, prev,
                   faults, alerts, reg, sess, alert>>

\* Start returned no error: the deadline is zero without -timeout, now plus
\* the duration with it (ahead, or past for a negative one); a -timeout
\* that does not parse exits the process with os.Exit(1), which runs no
\* deferred call; main.started: Start has returned no error
MainDeadline ==
    /\ main.at = "start" /\ pc = "ready" /\ ret = "nil"
    /\ \E timeout \in {"", "bad", "future", "past"} :
        IF timeout = "bad"
        THEN /\ pc' = "exited"
             /\ main' = [main EXCEPT !.at = "exited", !.started = TRUE]
        ELSE /\ main' = [main EXCEPT !.at = "loop", !.started = TRUE,
                                     !.dl = IF timeout = "" THEN "zero" ELSE timeout]
             /\ UNCHANGED pc
    /\ UNCHANGED <<groups, queue, rdl, ksw, khw, arg, perr, ms, ret, ops, cur, prev,
                   faults, alerts, reg, sess, alert>>

\* the program's deadline as it stands now: the socket carries it once the
\* first ReadUntil has set it
DeadlineNow == IF main.dl = "future" /\ rdl = "past" THEN "past" ELSE main.dl

\* session.ReadUntil(deadline, f)
MainRead ==
    /\ main.at = "loop"
    /\ Begin("ReadUntil", FALSE, FALSE, DeadlineNow)
    /\ pc' = "read_top"
    /\ main' = [main EXCEPT !.at = "read"]
    /\ UNCHANGED <<groups, queue, rdl, ksw, khw, ret, faults, alerts, reg, sess, alert>>

\* mutant: the count is compared after the next drop
MainCallbackLate(match) ==
    LET n == IF match THEN main.dropCount + 1 ELSE main.dropCount IN
    [dropCount |-> n,
     more |-> ~(match /\ main.maxDrops # 0 /\ n = main.maxDrops + 1)]

\* the callback: a drop that matches the filter is counted, and the callback
\* returns false when the count reaches a non-zero -count
MainCallback(match) ==
    LET n == IF match THEN main.dropCount + 1 ELSE main.dropCount IN
    [dropCount |-> n,
     more |-> ~(match /\ main.maxDrops # 0 /\ n = main.maxDrops)]

\* one round of ReadUntil's loop with the program's callback
MainReadMessage ==
    /\ \E match \in (IF Calls THEN BOOLEAN ELSE {FALSE}) :
        /\ ReadLoop(MainCallback(match).more)
        /\ main' = IF Calls
                   THEN [main EXCEPT !.dropCount = MainCallback(match).dropCount]
                   ELSE main
    /\ UNCHANGED <<reg, sess, alert>>

\* ReadUntil returned an error: it is printed and, after a sleep, the loop
\* calls ReadUntil again
MainRetry ==
    /\ main.at = "read" /\ pc = "ready" /\ ret # "nil"
    /\ main' = [main EXCEPT !.at = "loop", !.retried = TRUE]
    /\ UNCHANGED <<groups, queue, rdl, ksw, khw, pc, arg, perr, ms, ret, ops, cur,
                   prev, faults, alerts, reg, sess, alert>>

\* ReadUntil returned no error: main returns, which runs the deferred
\* session.Stop(true, true)
MainReturn ==
    /\ main.at = "read" /\ ret = "nil"
    /\ Begin("Stop", TRUE, TRUE, "zero")
    /\ pc' = "leave"
    /\ main' = [main EXCEPT !.at = "defer"]
    /\ UNCHANGED <<groups, queue, rdl, ksw, khw, ret, faults, alerts, reg, sess, alert>>

\* the deferred Stop returned: the process ends
MainExit ==
    /\ main.at = "defer" /\ pc = "ready"
    /\ Exit
    /\ UNCHANGED <<groups, queue, rdl, ksw, khw, arg, perr, ms, ret, ops, cur, prev,
                   faults, alerts, reg, sess, alert>>

\* an interrupt reaches the handler goroutine
HandlerSignal ==
    /\ Running /\ main.sig = "wait"
    /\ main' = [main EXCEPT !.sig = "leave"]
    /\ UNCHANGED <<groups, queue, rdl, ksw, khw, pc, arg, perr, ms, ret, ops, cur,
                   prev, faults, alerts, reg, sess, alert>>

\* the handler's session.Stop(true, true): conn.LeaveGroup(GRP_ALERT)
HandlerLeave ==
    /\ Running /\ main.sig = "leave"
    /\ \E fail \in FaultChoices :
        /\ faults' = IF fail THEN faults + 1 ELSE faults
        /\ groups' = IF fail THEN groups ELSE groups \ {GRP_ALERT}
        /\ main' = [main EXCEPT !.sig = "req", !.hok = ~fail]
    /\ UNCHANGED <<queue, rdl, ksw, khw, pc, arg, perr, ms, ret, ops, cur, prev,
                   alerts, reg, sess, alert>>

\* the handler's session.Stop(true, true): the CMD_STOP request
HandlerReq ==
    /\ Running /\ main.sig = "req"
    /\ \E how \in SendChoices :
        /\ Send(CMD_STOP, TRUE, TRUE, StopAck, how)
        /\ main' = [main EXCEPT !.sig = "done", !.hok = main.hok /\ how = "ok"]
    /\ UNCHANGED <<groups, rdl, pc, arg, perr, ms, ret, ops, cur, prev, alerts,
                   reg, sess, alert>>

\* the handler's os.Exit(1)
HandlerExit ==
    /\ Running /\ main.sig = "done"
    /\ pc' = "exited"
    /\ main' = [main EXCEPT !.at = "exited", !.sig = "exited"]
    /\ UNCHANGED <<groups, queue, rdl, ksw, khw, arg, perr, ms, ret, ops, cur, prev,
                   faults, alerts, reg, sess, alert>>

\* the drops of a run: one more than the largest -count
KernelDrop == KernelAlertUpTo(MaxCount + 1)

MainInit ==
    /\ Constructed
    /\ main \in {[Program EXCEPT !.maxDrops = n, !.hw = hw] :
                    n \in {0, MaxCount}, hw \in BOOLEAN}
    /\ reg = Registry
    /\ sess = NewSession(Registry)
    /\ alert = Unread(NoAttrs)

MainNext ==
    \/ MainStop
    \/ MainStart
    \/ MainStartFailed
    \/ MainDeadline
    \/ MainRead
    \/ MainReadMessage
    \/ MainRetry
    \/ MainReturn
    \/ MainExit
    \/ setPacketModeReq
    \/ setPacketModeAck
    \/ StartReq
    \/ StartAck
    \/ StartJoin
    \/ StopLeave
    \/ StopReq
    \/ ReadDeadline
    \/ ReadReceive
    \/ KernelDrop
    \/ Elapse

MainSpec == MainInit /\ [][MainNext]_vars

\* the program and an interrupt
SignalNext ==
    \/ MainNext
    \/ HandlerSignal
    \/ HandlerLeave
    \/ HandlerReq
    \/ HandlerExit

SignalSpec == MainInit /\ [][SignalNext]_vars

\* ------------------------------------------------------------- discovery
\* NewSession against any registry: Dial succeeds or fails; the lookup finds
\* the family, finds none, or fails; the family has an identifier and zero to
\* MaxGroups groups.
FamilyIds == {FamilyId, FamilyId + 1, FamilyId + 2}
GroupIds == {GRP_ALERT, GRP_ALERT + 1}
GroupLists == UNION {[1..n -> GroupIds] : n \in 0..MaxGroups}
Registries ==
    {RegistryOf(dial, lookup, id, grps) :
        dial \in BOOLEAN, lookup \in {"found", "absent", "error"},
        id \in FamilyIds, grps \in GroupLists}

Unmade == NoSession("none")

DiscoveryInit ==
    /\ Constructed
    /\ main = Program
    /\ reg \in Registries
    /\ sess = Unmade
    /\ alert = Unread(NoAttrs)

\* the call of NewSession
Discover ==
    /\ sess = Unmade
    /\ sess' = NewSession(reg)
    /\ UNCHANGED <<groups, queue, rdl, ksw, khw, pc, arg, perr, ms, ret, ops, cur,
                   prev, faults, alerts, main, reg, alert>>

DiscoveryNext == Discover

DiscoverySpec == DiscoveryInit /\ [][DiscoveryNext]_vars

\* NewSession against any registry, then Start and Stop calls on the Session
\* it returned (there is none to call when it returned an error)
GroupNext ==
    \/ Discover
    \/ sess.ok /\ Start
    \/ sess.ok /\ setPacketModeReq
    \/ sess.ok /\ setPacketModeAck
    \/ sess.ok /\ StartReq
    \/ sess.ok /\ StartAck
    \/ sess.ok /\ StartJoin
    \/ sess.ok /\ Stop
    \/ sess.ok /\ StopLeave
    \/ sess.ok /\ StopReq

GroupSpec == DiscoveryInit /\ [][GroupNext]_vars

\* ------------------------------------------------------------- accessors
\* The accessors on any PacketAlert decodeAlert can build: each attribute is
\* absent, or present with one of a few values.
Opt(S) == {<<>>} \cup {<<v>> : v \in S}

\* the map of the attributes that are present (a one-element sequence each)
MapOf(present) ==
    [a \in {t \in DOMAIN present : present[t] # <<>>} |-> present[a][1]]

Bytes(n) == [i \in 1..n |-> i]
Payloads == {Bytes(0), Bytes(EthHeader), Bytes(EthHeader + 2)}
Symbols == {"", "kfree_skb"}
Words == {0, 2048}

InPorts ==
    {MapOf([t \in {NATTR_PORT_NETDEV_IFINDEX, NATTR_PORT_NETDEV_NAME} |->
              IF t = NATTR_PORT_NETDEV_IFINDEX THEN idx ELSE name]) :
        idx \in Opt({0, 2}), name \in Opt({"eth0"})}

AttrTypes ==
    {ATTR_PAYLOAD, ATTR_SYMBOL, ATTR_PC, ATTR_PROTO, ATTR_ORIG_LEN, ATTR_IN_PORT}

PacketAlerts ==
    {MapOf([t \in AttrTypes |->
              CASE t = ATTR_PAYLOAD -> payload
                [] t = ATTR_SYMBOL -> sym
                [] t = ATTR_PC -> pcv
                [] t = ATTR_PROTO -> proto
                [] t = ATTR_ORIG_LEN -> len
                [] OTHER -> port]) :
        payload \in Opt(Payloads), sym \in Opt(Symbols), pcv \in Opt(Words),
        proto \in Opt(Words), len \in Opt(Words), port \in Opt(InPorts)}

AccessInit ==
    /\ Constructed
    /\ main = Program
    /\ reg = Registry
    /\ sess = NewSession(Registry)
    /\ alert \in {Unread(pa) : pa \in PacketAlerts}

\* the callback calls every accessor on the alert it was handed
Access ==
    /\ ~alert.read
    /\ alert' = Accessed(alert.attrs)
    /\ UNCHANGED <<groups, queue, rdl, ksw, khw, pc, arg, perr, ms, ret, ops, cur,
                   prev, faults, alerts, main, reg, sess>>

AccessNext == Access

AccessSpec == AccessInit /\ [][AccessNext]_vars

\* ---------------------------------------------------------- config query
\* The calls Start, Stop and Config in any order.
ConfigNext ==
    \/ Start
    \/ setPacketModeReq
    \/ setPacketModeAck
    \/ StartReq
    \/ StartAck
    \/ StartJoin
    \/ Stop
    \/ StopLeave
    \/ StopReq
    \/ Config
    \/ ConfigReq
    \/ ConfigRecv
    \/ KernelAlert

ConfigSpec == Init /\ [][ConfigNext]_vars

\* ------------------------------------------------------------- read loop
\* The read loop on its own: the Session as the first Start(true, false) on
\* it leaves it when nothing fails, then ReadUntil calls, against a kernel
\* that multicasts datagrams of several messages.
Started ==
    /\ groups = {GRP_ALERT}
    /\ queue = <<>>
    /\ rdl = "none"
    /\ ksw = TRUE
    /\ khw = FALSE
    /\ pc = "ready"
    /\ arg = [sw |-> TRUE, hw |-> FALSE, dl |-> "zero"]
    /\ perr = ""
    /\ ms = <<>>
    /\ ret = "nil"
    /\ ops = StartOps(TRUE, FALSE)
    /\ cur = [op |-> "Start", clean |-> TRUE, pre |-> [j |-> FALSE, sw |-> FALSE, hw |-> FALSE],
              rb |-> "none", cbs |-> 0, tmo |-> FALSE, stop |-> FALSE, got |-> <<>>, fed |-> <<>>,
              dec |-> NoAlert, late |-> FALSE, ahead |-> 0]
    /\ prev = [op |-> "none", ret |-> "nil", clean |-> TRUE, idle |-> TRUE, off |-> TRUE]
    /\ faults = 0
    /\ alerts = 0
    /\ main = Program
    /\ reg = Registry
    /\ sess = NewSession(Registry)
    /\ alert = Unread(NoAttrs)

ReadInit == Started

ReadNext ==
    \/ ReadUntil
    \/ ReadDeadline
    \/ ReadReceive
    \/ ReadMessage
    \/ KernelBatch
    \/ Elapse

ReadSpec == ReadInit /\ [][ReadNext]_vars

\* ---------------------------------------------------------------- claims
Returned(op) == pc = "ready" /\ cur.op = op

\* ops[i] is the i-th step of Start, succeeded or failed
IsStartStep(i) == [ops[i] EXCEPT !.ok = TRUE] = StartOps(arg.sw, arg.hw)[i]

\* C1 (order): the steps of Start come in the order configure request, its
\* acknowledgment, start request, its acknowledgment, join; a step is made
\* only after every earlier one succeeded, and nothing but the rollback Stop
\* follows a failed one.
StartStepsInOrder ==
    cur.op = "Start" =>
        \A i \in 1..Len(ops) :
            IF \A j \in 1..(i - 1) : ops[j].ok
            THEN i <= 5 /\ IsStartStep(i)
            ELSE ops[i].op = "leave" \/ (ops[i].op = "send" /\ ops[i].cmd = CMD_STOP)

\* C1: Start returns success only after the acknowledged CMD_CONFIG request,
\* the acknowledged CMD_START request and the join, in this order, each having
\* succeeded; and when it returns success the group is joined and kernel
\* alerting is enabled.
StartSuccessMeansMonitoring ==
    (Returned("Start") /\ ret = "nil") =>
        /\ ops = StartOps(arg.sw, arg.hw)
        /\ Joined
        /\ Alerting

\* C2: whenever no call is in progress the Session is Idle or Monitoring: the
\* group is joined if and only if kernel alerting is enabled.
IdleOrMonitoring == pc = "ready" => (Joined <=> Alerting)

\* the rollback Stop(sw, hw) of the Start that returned: one leave attempt,
\* then one CMD_STOP request without the acknowledge flag, with Start's flags
RolledBack(from) ==
    /\ Len(ops) = from + 1
    /\ ops[from].op = "leave"
    /\ ops[from + 1] = Op("send", CMD_STOP, FALSE, arg.sw, arg.hw, ops[from + 1].ok)

JoinFailed == Returned("Start") /\ Len(ops) >= 5 /\ ops[5].op = "join" /\ ~ops[5].ok

\* C3: when the join step of Start fails, Start runs the stop-and-leave
\* rollback and returns the join error, the Session is Idle afterwards, and a
\* following Start during which nothing fails succeeds.
JoinFailureLeavesIdle ==
    /\ JoinFailed => (RolledBack(6) /\ ret = "join" /\ Idle)
    /\ (Returned("Start") /\ cur.clean /\ prev.op = "Start" /\ prev.ret = "join")
          => ret = "nil"

StartAckFailed == Returned("Start") /\ Len(ops) >= 4 /\ ops[4].op = "recv" /\ ~ops[4].ok

\* C4: when the receive of CMD_START's acknowledgment fails, Start makes one
\* Stop attempt with its own sw/hw flags and returns the acknowledgment
\* failure, whether that Stop succeeded or failed.
AckFailureRollsBack ==
    StartAckFailed =>
        /\ RolledBack(5)
        /\ cur.rb \in {"nil", "req"}
        /\ ret = "req ack"

\* C4 witness: the acknowledgment failed and the rollback Stop failed too
AckFailureRollbackFailed == StartAckFailed /\ cur.rb = "req" /\ ret = "req ack"

ConfigFailed ==
    /\ Returned("Start")
    /\ \/ Len(ops) = 1 /\ ~ops[1].ok
       \/ Len(ops) >= 2 /\ ~ops[2].ok

\* C5: when the configure step fails (the CMD_CONFIG request cannot be sent or
\* the receive of its acknowledgment fails), Start returns an error, has sent
\* no CMD_START and has not joined the group, and kernel monitoring and group
\* membership are as they were before the call.
ConfigFailureChangesNothing ==
    ConfigFailed =>
        /\ ret \in {"packet mode: req", "packet mode: req ack"}
        /\ \A i \in 1..Len(ops) : ops[i].cmd = CMD_CONFIG
        /\ Snapshot = cur.pre

\* C5 witness: the acknowledgment of CMD_CONFIG failed on a Monitoring Session
ConfigAckFailedWhileMonitoring ==
    /\ ConfigFailed
    /\ Len(ops) = 2
    /\ cur.pre.j /\ cur.pre.sw
    /\ ret = "packet mode: req ack"

\* a Stop has returned: the call itself, or the rollback of a Start
StopReturned == pc = "ready" /\ (cur.op = "Stop" \/ cur.rb # "none")
StopReturn == IF cur.op = "Stop" THEN ret ELSE cur.rb

TwoStops == Returned("Stop") /\ prev.op = "Stop"

Count(f(_)) == Cardinality({i \in 1..Len(ops) : f(ops[i])})
IsLeave(o) == o.op = "leave"
IsStopSend(o) == o.op = "send" /\ o.cmd = CMD_STOP

TimeoutEndsRead ==
    [][(pc = "read_recv" /\ rdl = "past" /\ pc' # pc)
          => (pc' = "ready" /\ ret' = "nil" /\ cur'.tmo /\ cur'.cbs = cur.cbs)]_vars

\* C10 witness: ReadUntil returned on a timeout after it had called back
TimedOutAfterCallback ==
    Returned("ReadUntil") /\ cur.tmo /\ cur.cbs >= 1 /\ ret = "nil"

\* fed is a prefix of got
FedInOrder ==
    /\ Len(cur.fed) <= Len(cur.got)
    /\ cur.fed = SubSeq(cur.got, 1, Len(cur.fed))

\* C11: ReadUntil calls f once for each packet alert it received, in the
\* order of reception, and never for a message of another command: the calls
\* made are the alerts received less those of the datagram at hand that are
\* still to be looked at; and the step that looks at a message of another
\* command drops it, calls nothing and returns nothing.
CallbackOncePerAlert ==
    /\ [](cur.op = "ReadUntil" =>
            /\ \A i \in 1..Len(cur.fed) : cur.fed[i].c = CMD_PACKET_ALERT
            /\ cur.cbs = Len(cur.fed)
            /\ FedInOrder
            /\ pc \in {"read_top", "read_recv"} => cur.fed = cur.got
            /\ pc = "read_msgs" => cur.got = cur.fed \o SelectSeq(ms, IsAlert))
    /\ [][(pc = "read_msgs" /\ ms # <<>> /\ Head(ms).c # CMD_PACKET_ALERT)
            => (pc' = "read_msgs" /\ ms' = Tail(ms) /\ ret' = ret /\ cur' = cur)]_<<pc, ms, ret, cur>>

\* C11 witness: f was called for the second message of the first datagram
\* and then for the first of the second, the first message of all having been
\* one of another command
CalledBackPastOther ==
    /\ cur.op = "ReadUntil"
    /\ Len(cur.fed) = 2
    /\ cur.fed[1].id = <<1, 2>>
    /\ cur.fed[2].id = <<2, 1>>

\* C12: when f returns false ReadUntil returns at once and without an error:
\* no message after that one is handed to f, those of the same datagram
\* included, and nothing more is received.
FalseStopsRead ==
    cur.stop =>
        /\ pc = "ready" /\ ret = "nil"
        /\ ms = <<>>
        /\ cur.cbs = Len(cur.fed)
        /\ FedInOrder

\* C12 witness: f returned false on an alert that another alert of the same
\* datagram followed
StoppedInsideBatch ==
    /\ Returned("ReadUntil") /\ cur.stop
    /\ Len(cur.got) > Len(cur.fed)

\* C13: ReadUntil called with a deadline already past returns at once with
\* no error and without a call of f, whatever is queued on the socket: it
\* never gets to a message, its receive does not block, and it returns nil on
\* the timeout.
PastDeadlineReturnsAtOnce ==
    (cur.op = "ReadUntil" /\ cur.late) =>
        /\ cur.cbs = 0
        /\ pc \in {"read_top", "read_recv", "ready"}
        /\ pc = "read_recv" => (rdl = "past" /\ ENABLED ReadReceive)
        /\ pc = "ready" => (ret = "nil" /\ cur.tmo)

\* C13 witness: it returned with a well-formed alert at the head of the queue
PastDeadlineLeftAlertQueued ==
    /\ Returned("ReadUntil") /\ cur.late
    /\ queue # <<>> /\ IsAlert(Head(queue)) /\ Head(queue).good
    /\ ret = "nil"

\* C14: ReadUntil called with a zero deadline never returns because of a
\* timeout, whatever was called on the Session before.
ZeroDeadlineNeverTimesOut ==
    (Returned("ReadUntil") /\ arg.dl = "zero") => ~cur.tmo

\* C15: a receive of ReadUntil that fails otherwise than by a timeout (the
\* transport fails, or the datagram read is an error message of the kernel)
\* ends ReadUntil with the error, f not called.
ReadErrorAborts ==
    [][(/\ pc = "read_recv" /\ pc' # pc
        /\ rdl # "past"
        /\ faults' > faults \/ Head(queue).k = "err")
          => (/\ pc' = "ready" /\ ret' = "recv"
              /\ cur'.cbs = cur.cbs /\ cur'.fed = cur.fed /\ ~cur'.tmo)]_vars

\* C15 witness: ReadUntil returned the receive error after it had called f
ReadErrorAfterCallback ==
    Returned("ReadUntil") /\ ret = "recv" /\ cur.cbs >= 1

\* C16: a packet alert whose attributes cannot be decoded ends ReadUntil with
\* an error: f is called neither for it nor for a message after it, and the
\* decode hands back nil, not the attributes read before the bad one. Inside
\* the loop every alert looked at was well formed and handed to f.
MalformedAlertAborts ==
    /\ (Returned("ReadUntil") /\ ret = "parse alert packet") =>
          /\ cur.dec = [err |-> TRUE, nil |-> TRUE, attrs |-> {}]
          /\ ms = <<>>
          /\ FedInOrder
          /\ Len(cur.got) > Len(cur.fed)
          /\ ~cur.got[Len(cur.fed) + 1].good
    /\ (cur.op = "ReadUntil" /\ ~(pc = "ready" /\ ret = "parse alert packet")) =>
          /\ \A i \in 1..Len(cur.fed) : cur.fed[i].good
          /\ cur.dec.err = FALSE
          /\ cur.cbs >= 1 => cur.dec = [err |-> FALSE, nil |-> FALSE,
                                         attrs |-> {ATTR_PC, ATTR_SYMBOL, ATTR_PROTO}]

\* C16 witness: the malformed alert came after an alert handed to f and
\* before another alert of its datagram
MalformedInsideBatch ==
    /\ Returned("ReadUntil") /\ ret = "parse alert packet"
    /\ Len(cur.fed) >= 1
    /\ Len(cur.got) = Len(cur.fed) + 2

\* C17: Config sends one CMD_CONFIG_GET request without the acknowledge flag
\* and makes one receive; the message it decodes when it returns a
\* configuration is the kernel's reply to that request; and it leaves group
\* membership and kernel monitoring as they were.
ConfigDecodesItsReply ==
    Returned("Config") =>
        /\ Len(ops) \in {1, 2}
        /\ ops[1] = Op("send", CMD_CONFIG_GET, FALSE, FALSE, FALSE, ops[1].ok)
        /\ Len(ops) = 2 => ops[2].op = "recv"
        /\ Snapshot = cur.pre
        /\ ret = "nil" => (cur.got = <<ConfMsg>> /\ cur.ahead = 0)

\* C19: NewSession fails, with an error and no Session, when the registry has
\* no NET_DM family or the family has a number of groups other than one; and
\* when the connection is open and the lookup finds the family with its one
\* group, it returns a Session with the family's identifier and that group's.
DiscoveryNeedsOneGroup ==
    sess # Unmade =>
        /\ (reg.lookup = "absent" \/ Len(reg.groups) # 1) =>
              (~sess.ok /\ sess.err # "nil" /\ sess.fam = 0 /\ sess.group = 0)
        /\ (reg.dial /\ reg.lookup = "found" /\ Len(reg.groups) = 1) =>
              (/\ sess.ok /\ sess.err = "nil"
               /\ sess.fam = reg.id /\ sess.group = reg.groups[1])

\* C19 witness: the family was found with two groups and NewSession failed
MartianFamilyRefused ==
    /\ reg.dial /\ reg.lookup = "found" /\ Len(reg.groups) = 2
    /\ sess = NoSession("session: lookup: martian")

Reading == pc \in {"read_top", "read_recv", "read_msgs"}

\* C20: with a non-zero -count the program counts at most that many matching
\* drops, over all the ReadUntil calls of its loop; and once the count is
\* reached it reads no more: the ReadUntil at hand has returned no error and
\* the loop is not entered again.
CountNeverExceeded ==
    main.maxDrops # 0 =>
        /\ main.dropCount <= main.maxDrops
        /\ main.dropCount = main.maxDrops =>
              (/\ ~Reading
               /\ main.at \in {"read", "defer", "exited"}
               /\ main.at = "read" => (pc = "ready" /\ ret = "nil" /\ cur.stop))

\* C20 witness: the count was reached in a ReadUntil the loop called after
\* an earlier one had returned an error, and the program is at its deferred
\* Stop
CountReachedAfterRetry ==
    /\ main.maxDrops = MaxCount /\ main.dropCount = MaxCount
    /\ main.retried
    /\ main.at = "defer"

\* C18: the Stop the interrupt handler calls from its own goroutine never
\* waits for the main goroutine (each of its steps can be taken, whatever
\* call main is in, a blocked receive included), takes no datagram off the
\* socket, and, when its leave and its request did not fail, has left the
\* group when it completes, for every interleaving with main's calls.
HandlerStopLeavesGroup ==
    /\ []((Running /\ main.sig = "leave") => ENABLED HandlerLeave)
    /\ []((Running /\ main.sig = "req") => ENABLED HandlerReq)
    /\ [][main'.sig # main.sig =>
            (/\ Len(queue') >= Len(queue)
             /\ SubSeq(queue', 1, Len(queue)) = queue)]_vars
    /\ [][(main.sig = "req" /\ main'.sig = "done" /\ main'.hok) => ~Joined']_vars

\* ---- C21
\* C21: every accessor of a PacketAlert (Packet, L3Packet, Symbol, PC, Proto,
\* Length, Link) returns without failing, and returns its zero value when its
\* attribute is absent from the alert: for Link, when the port attribute or
\* the interface index nested in it is absent.
Absent(t) == t \notin DOMAIN alert.attrs

NoIfindex ==
    \/ Absent(ATTR_IN_PORT)
    \/ NATTR_PORT_NETDEV_IFINDEX \notin DOMAIN alert.attrs[ATTR_IN_PORT]

AbsentGivesZero ==
    alert.read =>
        /\ \A i \in 1..7 : ~alert.out[i].panic
        /\ Absent(ATTR_PAYLOAD) => alert.out[1].v = <<>> /\ alert.out[2].v = <<>>
        /\ Absent(ATTR_SYMBOL) => alert.out[3].v = ""
        /\ Absent(ATTR_PC) => alert.out[4].v = 0
        /\ Absent(ATTR_PROTO) => alert.out[5].v = 0
        /\ Absent(ATTR_ORIG_LEN) => alert.out[6].v = 0
        /\ NoIfindex => alert.out[7].v = 0

\* the accessors were called on an alert that has a port attribute holding a
\* name but no interface index, and neither payload nor symbol
PortWithoutIfindexRead ==
    /\ alert.read
    /\ ~Absent(ATTR_IN_PORT)
    /\ DOMAIN alert.attrs[ATTR_IN_PORT] = {NATTR_PORT_NETDEV_NAME}
    /\ Absent(ATTR_PAYLOAD)
    /\ Absent(ATTR_SYMBOL)
    /\ ~Absent(ATTR_PC)

\* ---- C22
\* C22: whenever Start, setPacketMode or Config receives the acknowledgment or
\* the reply of the request it has just sent, the datagram it takes off the
\* socket is the kernel's reply to that request: no datagram was queued ahead
\* of it, neither the reply to an earlier request that nobody waited for nor
\* a multicast alert.
AwaitsReply == pc \in {"cfg_ack", "start_ack", "get_recv"}

ReceiveTakesOwnReply ==
    [][(AwaitsReply /\ Len(queue') < Len(queue)) =>
          (cur.ahead = 0 /\ Head(queue).k # "mc")]_vars

\* ---- C23
\* C23: the family and group identifiers of a Session are written by
\* NewSession and never afterward, and the multicast group that Start joins
\* and that Stop leaves is the group identifier discovery resolved.
IdentifiersKept == [][sess # Unmade => sess' = sess]_vars

IsMembership(o) == o.op \in {"join", "leave"}

GroupIsDiscovered ==
    /\ groups \subseteq {sess.group}
    /\ \A i \in 1..Len(ops) : IsMembership(ops[i]) => ops[i].cmd = sess.group

JoinsDiscoveredGroup == []GroupIsDiscovered /\ IdentifiersKept

\* ---- C24
\* C24: in the command-line program, once Start has returned no error, every
\* way the process ends (the deadline reached, the count reached, an
\* interrupt, a -timeout value that does not parse) runs Stop before the
\* process exits, so that the kernel is not left alerting when nothing
\* failed.
StartedAndExited == main.at = "exited" /\ main.started

StopRanBeforeExit == main.sig = "exited" \/ cur.op = "Stop"

ExitStopsAlerting ==
    StartedAndExited =>
        /\ StopRanBeforeExit
        /\ faults = 0 => ~Alerting

====
